---- MODULE Spec2Model ----
(***************************************************************************)
(* Lunaboxd: the session layer of src/src/session.py.                      *)
(*                                                                         *)
(* State: the LunaboxdSession object the process works with, the session   *)
(* cache file on disk (contents and modification time), the clock, the     *)
(* position inside LunaboxdSession.load() / __init__(), a record of the    *)
(* most recent call of request() (the answer and what was sent and         *)
(* logged), how many session objects components hold ("none", "one" or     *)
(* "many"), the collection of a paginated listing in progress              *)
(* (Find._get_results of src/src/find.py, Tags.get_tags of                 *)
(* src/src/tags.py, the walks by 'next' of src/src/member.py and           *)
(* src/src/tags.py), and a film's rating histogram with the last value     *)
(* computed from it (src/src/film.py).                                     *)
(*                                                                         *)
(* Python values are written as strings: "null" is None, "true"/"false"    *)
(* are the JSON booleans, "empty" is the empty string, "absent" is a key   *)
(* that the JSON payload does not have.                                    *)
(***************************************************************************)
EXTENDS Integers, FiniteSets, Sequences, TLC

VARIABLES session, file, now, pc, last, reqs, loadres, sent, objects, coll,
          film

vars ==
    <<session, file, now, pc, last, reqs, loadres, sent, objects, coll,
      film>>

(* ------------------------------ bounds -------------------------------- *)

\* anti-forgery tokens the site may hand out are 1..MaxToken (0: no cookie)
MaxToken == 2
\* the credentials an operator may type are 1..MaxCred (0: not yet set)
MaxCred == 1
\* the clock runs from 0 to MaxTime, in units of half an hour
MaxTime == 3

\* a listing of the site has 1..MaxPages pages
MaxPages == 3

\* a score of the histogram has 0..MaxCount ratings
MaxCount == 4
\* action_rate is tried with the integers from MaxOver below to MaxOver
\* above the scale
MaxOver == 2

\* datetime.timedelta(hours=1), in clock units
OneHour == 2

\* Find.RESULTS_PER_PAGE
RESULTS_PER_PAGE == 20

\* the highest score of the scale 1..10 (half stars counted)
RATING_MAX == 10

\* rating_ironic: minimum_number_of_ratings
minimum_number_of_ratings == 3

(* --------------------------- the site's answers ------------------------ *)

\* values of the 'result' key of the structured payload
ResultVals == {"absent", "null", "true", "success", "error", "false", "empty"}
\* values of the 'error' key of the structured payload
ErrorVals == {"absent", "not_found", "forbidden"}
\* the document's error marker: "none" (body is not of class 'error'),
\* "noscript" (body of class 'error' but no '/errors/<code>' script),
\* or the code found in the script
MarkerVals == {"none", "noscript", "not_found", "forbidden", "server_error"}
StatusVals == {200, 404}

JsonResponses ==
    [status : StatusVals, kind : {"json"}, result : ResultVals,
     jerror : ErrorVals, messages : BOOLEAN, marker : {"none"},
     loggedin : {FALSE}, setcsrf : 0..MaxToken]

HtmlResponses ==
    [status : StatusVals, kind : {"html"}, result : {"absent"},
     jerror : {"absent"}, messages : {FALSE}, marker : MarkerVals,
     loggedin : BOOLEAN, setcsrf : 0..MaxToken]

Responses == JsonResponses \cup HtmlResponses

\* no response was obtained (connection failure or timeout)
NoResponse ==
    [status |-> 0, kind |-> "none", result |-> "absent", jerror |-> "absent",
     messages |-> FALSE, marker |-> "none", loggedin |-> FALSE, setcsrf |-> 0]

\* what a request can meet
Answers == Responses \cup {NoResponse}

\* the answers the session life cycle is explored with: for every way
\* request() can end (return, each exception, no response), every cookie
\* the answer can set and, for a page that is returned, either state of
\* the logged-in marker
LifeCycleAnswers ==
    {r \in Answers :
        \/ r = NoResponse
        \/ r.kind = "html" /\ r.marker = "none" /\ r.status = 200
        \/ /\ r.kind = "html" /\ r.marker \in {"none", "not_found"}
           /\ r.status = 404 /\ ~r.loggedin
        \/ /\ r.kind = "json" /\ r.status = 200 /\ r.jerror = "absent"
           /\ r.result \in {"success", "error", "false"}
           /\ r.messages = (r.result = "error")}

(* ----------------------- LetterboxdResponseDict ------------------------ *)

\* Python truthiness of a value of the dictionary
Truthy(v) == v \notin {"absent", "null", "false", "empty"}

successful_result == {"true", "success"}

\* _get_letterboxd_errors: None when the body is not of class 'error';
\* otherwise the method reads self.soup, an attribute the dictionary does
\* not have, and AttributeError is raised.
_get_letterboxd_errors(resp) ==
    IF resp.marker = "none" THEN "null" ELSE "AttributeError"

\* get_letterboxd_response_dict: the keys of the JSON object (if the body
\* is one), with 'error' then overwritten by _get_letterboxd_errors.
get_letterboxd_response_dict(resp) ==
    [result   |-> IF resp.kind = "json" THEN resp.result ELSE "absent",
     messages |-> IF resp.kind = "json" THEN resp.messages ELSE FALSE,
     error    |-> _get_letterboxd_errors(resp)]

\* dict.get('result') / dict.get('error'): None for a missing key
result(d) == IF d.result = "absent" THEN "null" ELSE d.result
error(d) == IF d.error = "absent" THEN "null" ELSE d.error

\* requests.Response.ok
response_ok(resp) == resp.status < 400

\* has_response_dict looking at the 'error' key alone
has_response_dict_error_only(d) == Truthy(d.error)

has_response_dict(d) == Truthy(d.result) \/ d.messages \/ Truthy(d.error)

ok(resp, d) ==
    IF ~response_ok(resp) THEN FALSE
    ELSE IF result(d) # "null" /\ result(d) \notin successful_result THEN FALSE
    ELSE ~Truthy(error(d))

\* raise_errors: the exception raised, "none" when it returns
raise_errors(resp, d) ==
    IF ok(resp, d) THEN "none"
    ELSE IF has_response_dict(d)
         THEN CASE error(d) = "not_found" -> "PageNotFound"
                [] error(d) = "forbidden" -> "PageForbiddenError"
                [] OTHER -> "LetterboxdError"
         ELSE IF response_ok(resp) THEN "none" ELSE "HTTPError"

\* LetterboxdResponseDict(response): the exception its constructor raises
LetterboxdResponseDict(resp) ==
    IF _get_letterboxd_errors(resp) = "AttributeError" THEN "AttributeError"
    ELSE raise_errors(resp, get_letterboxd_response_dict(resp))

(* --------------------------- session objects --------------------------- *)

\* no session object
NoSession == [live |-> FALSE, creds |-> 0, csrf |-> 0, filmFilter |-> 0]

\* requests.Session.__init__ + the user agent header: an object without
\* login_credentials and with an empty cookie jar
NewSession == [live |-> TRUE, creds |-> 0, csrf |-> 0, filmFilter |-> 0]

\* __getstate__ over __attrs__: login_credentials and cookies are pickled
getstate(s) == [creds |-> s.creds, csrf |-> s.csrf, filmFilter |-> s.filmFilter]

\* setstate with the cookie jar lost on the way
setstate_emptyjar(st) ==
    [live |-> TRUE, creds |-> st.creds, csrf |-> 0, filmFilter |-> 0]

\* pickle.load: the object rebuilt from the pickled state
setstate(st) ==
    [live |-> TRUE, creds |-> st.creds, csrf |-> st.csrf,
     filmFilter |-> st.filmFilter]

(* ----------------------------- the cache file -------------------------- *)

AbsentFile == [kind |-> "absent", state |-> getstate(NoSession), mtime |-> 0]

\* a file that pickle.load cannot read, last written at time t
CorruptFile(t) == [kind |-> "corrupt", state |-> getstate(NoSession), mtime |-> t]

\* save(): the file after open(..., 'wb') and pickle.dump(self) at time t
save(s, t) == [kind |-> "pickle", state |-> getstate(s), mtime |-> t]

\* save_session with self.save() in a finally clause
save_session_finally(s, f, exc, t) == save(s, t)

\* the save_session decorator: func's exception skips self.save()
save_session(s, f, exc, t) == IF exc = "none" THEN save(s, t) ELSE f

\* util.file_updated_after(file_path, datetime)
file_updated_after(f, datetime) ==
    IF f.kind = "absent" THEN FALSE ELSE f.mtime > datetime

(* ------------------------------- request ------------------------------- *)

\* vars(self.login_credentials) for the credentials c the operator typed
Credentials(c) ==
    [username |-> c, password |-> IF c = 0 THEN 0 ELSE MaxCred + c]

\* a data dictionary: '__csrf' is -1 (no such key), 0 (None) or a token;
\* username and password are 0 when the dictionary has no such key;
\* fields tells whether it has other keys
NoData == [csrf |-> -1, username |-> 0, password |-> 0, fields |-> FALSE]

\* the data of a component's POST (a rating, a comment, ...)
FormData == [NoData EXCEPT !.fields = TRUE]

\* login(): data = vars(self.login_credentials)
LoginData(c) ==
    [NoData EXCEPT !.username = Credentials(c).username,
                   !.password = Credentials(c).password]

\* the csrf_token property: a dictionary with the one key '__csrf', whose
\* value is the cookie's value, None without the cookie
csrf_token(s) == [keys |-> {"__csrf"}, csrf |-> s.csrf]

\* _make_data without the token
_make_data_plain(s, data) == data

\* _make_data: 'not self.csrf_token' tests the dictionary for emptiness;
\* csrf_token | data keeps the caller's value of a key that both have
_make_data(s, data) ==
    IF csrf_token(s).keys = {} THEN data
    ELSE [data EXCEPT !.csrf = IF data.csrf = -1 THEN csrf_token(s).csrf
                                 ELSE data.csrf]

\* the form fields requests puts on the wire for a data dictionary: a key
\* whose value is None is left out
encode(data) == [data EXCEPT !.csrf = IF data.csrf = 0 THEN -1 ELSE data.csrf]

\* request(): kwargs['data'] as made, as written by logging.debug and as
\* sent by super().request()
request_sent(s, method, url, data) ==
    [method |-> method, url |-> url, caller |-> data,
     logged |-> _make_data(s, data),
     wire |-> encode(_make_data(s, data))]

NothingSent ==
    [method |-> "none", url |-> "none", caller |-> NoData, logged |-> NoData,
     wire |-> NoData]

\* kwargs.get('timeout') in request(): no caller passes a timeout and
\* request() adds none, so super().request() waits without limit
request_timeout == "None"

\* the exception request() raises for the site's answer, "none" if it returns
request_exc(resp) ==
    IF resp = NoResponse THEN "ConnectionError" ELSE LetterboxdResponseDict(resp)

\* request_session with the response's cookies not kept
request_session_nocookies(s, resp) == s

\* the session after super().request(): the response's cookies are merged
\* into the jar before the response is classified
request_session(s, resp) ==
    IF resp = NoResponse \/ resp.setcsrf = 0 THEN s
    ELSE [s EXCEPT !.csrf = resp.setcsrf]

\* request_file with the jar pickled as it was before the response
request_file_stale(s, f, resp, t) == save_session(s, f, request_exc(resp), t)

\* the cache file after request(), through the save_session decorator
request_file(s, f, resp, t) ==
    save_session(request_session(s, resp), f, request_exc(resp), t)

\* the record of a call of request()
request_last(resp) == [resp |-> resp, exc |-> request_exc(resp)]

\* logged_in_check handling no exception of request()
logged_in_check_strict(s, resp) ==
    IF s.creds = 0 THEN "false"
    ELSE IF request_exc(resp) = "none"
         THEN IF resp.loggedin THEN "true" ELSE "false"
         ELSE "raise"

\* logged_in_check(): the value it returns for the answer to its request,
\* or "raise" when the exception of request() is not handled
logged_in_check(s, resp) ==
    IF s.creds = 0 THEN "false"
    ELSE CASE request_exc(resp) = "none" ->
                  IF resp.loggedin THEN "true" ELSE "false"
           [] request_exc(resp) \in {"AttributeError", "PageNotFound"} -> "false"
           [] OTHER -> "raise"

\* a component's constructor keeps the object load() returned in
\* self.session: one more session object is held
one_more(n) == IF n = "none" THEN "one" ELSE "many"

(* ------------------------- paginated collections ----------------------- *)

\* limit = None
NoLimit == [set |-> FALSE, val |-> 0]

\* the limits a search is called with: None, negative integers, 0, and up
\* to one more than the records of the longest listing
Limits ==
    {NoLimit} \cup
    {[set |-> TRUE, val |-> v] :
        v \in {-RESULTS_PER_PAGE, -1} \cup 0..(RESULTS_PER_PAGE * MaxPages + 1)}

\* 'if limit': None and 0 are false
limit_truthy(limit) == limit.set /\ limit.val # 0

\* a listing of the site: its number of pages, or no results at all
Sources == [pages : 1..MaxPages, empty : BOOLEAN]

\* the records of page p of a listing, numbered through the listing
PageRecords(p) ==
    [i \in 1..RESULTS_PER_PAGE |-> (p - 1) * RESULTS_PER_PAGE + i]

\* the site's answer for a page of a listing: a search without results
\* is answered with the not-found error page, a tag listing without tags
\* with an ordinary page holding the 'No ... tags yet' header
PageAnswer(comp, src) ==
    IF comp = "find" /\ src.empty
    THEN [status |-> 404, kind |-> "html", result |-> "absent",
          jerror |-> "absent", messages |-> FALSE, marker |-> "not_found",
          loggedin |-> FALSE, setcsrf |-> 0]
    ELSE [status |-> 200, kind |-> "html", result |-> "absent",
          jerror |-> "absent", messages |-> FALSE, marker |-> "none",
          loggedin |-> TRUE, setcsrf |-> 0]

\* letterboxd.get_last_page on the first page: 1 without a pagination
\* block, else the number of the last page link
get_last_page(src) == IF src.empty THEN 1 ELSE src.pages

\* math.ceil(limit / self.RESULTS_PER_PAGE)
ceil_pages(n) == (n + RESULTS_PER_PAGE - 1) \div RESULTS_PER_PAGE

Min(a, b) == IF a < b THEN a ELSE b

\* page_stop going to the last page whatever the limit
page_stop_last(limit, last_page) == last_page

\* page_stop in Find._get_results
page_stop(limit, last_page) ==
    IF limit_truthy(limit) THEN Min(last_page, ceil_pages(limit.val))
    ELSE last_page

\* results[:limit] if limit else results; a negative limit counts from
\* the end of the list
truncate(results, limit) ==
    IF ~limit_truthy(limit) THEN results
    ELSE IF limit.val < 0
         THEN SubSeq(results, 1, Len(results) + limit.val)
         ELSE SubSeq(results, 1, Min(limit.val, Len(results)))

\* _get_soup turning every exception into None
_get_soup_any(exc) == IF exc = "none" THEN "response" ELSE "None"

\* Find._get_soup: None for PageNotFound, the response when request()
\* returns, any other exception goes through
_get_soup(exc) ==
    IF exc = "PageNotFound" THEN "None"
    ELSE IF exc = "none" THEN "response" ELSE exc

\* no collection under way
NoColl ==
    [comp |-> "none", at |-> "idle", limit |-> NoLimit,
     source |-> [pages |-> 1, empty |-> FALSE],
     page_stop |-> 0, page_current |-> 0,
     fetched |-> <<>>, results |-> <<>>, returned |-> <<>>, exc |-> "none"]

\* the site's not-found error page
NotFoundPage == PageAnswer("find", [pages |-> 1, empty |-> TRUE])

\* the records scraped from page p of a listing: a page after the last
\* one holds none
results_on_page(src, p) == IF p <= src.pages THEN PageRecords(p) ELSE <<>>

\* the body of the loop of Find._get_results for the page just fetched:
\* extend the results; on the stop page return them cut to the limit
loop_body(c) ==
    LET results == c.results \o results_on_page(c.source, c.page_current)
    IN IF c.page_current = c.page_stop
       THEN [c EXCEPT !.results = results, !.at = "done",
                      !.returned = truncate(results, c.limit)]
       ELSE [c EXCEPT !.results = results, !.at = "loop"]

\* the pages Tags.get_tags fetches after the first: range(2, last_page)
tags_range(last_page) == 2..(last_page - 1)

\* Tags.get_tags after page i has been fetched: the next get_soup(i + 1),
\* or the results of the pages read
tags_body(c) ==
    LET results == c.results \o PageRecords(c.page_current)
    IN IF c.page_current + 1 \in tags_range(c.page_stop)
       THEN [c EXCEPT !.results = results, !.at = "loop"]
       ELSE [c EXCEPT !.results = results, !.at = "done",
                      !.returned = results]

\* the collection ends with the exception e
coll_raised(c, e) == [c EXCEPT !.at = "raised", !.exc = e]

\* a listing read by following its 'next' control: the control is on every
\* page but the last, or (endless) on every page the site serves
WalkSources == [pages : 1..MaxPages, empty : {FALSE}, endless : BOOLEAN]

\* has_next ignoring the control
has_next_never(src, p) == FALSE

\* soup.find('a', class_='next') on page p
has_next(src, p) == src.endless \/ p < src.pages

\* one pass of the loop of _get_people / get_links for the page just
\* fetched: extend the results, leave the loop without a 'next' control
walk_body(c) ==
    LET results == c.results \o results_on_page(c.source, c.page_current)
    IN IF has_next(c.source, c.page_current)
       THEN [c EXCEPT !.results = results, !.at = "loop"]
       ELSE [c EXCEPT !.results = results, !.at = "done",
                      !.returned = results]

\* the walk after the request for its next page was answered
walk_step(c, exc) ==
    LET c1 == [c EXCEPT !.page_current = @ + 1,
                        !.fetched = Append(@, c.page_current + 1)]
    IN IF exc = "none" THEN walk_body(c1) ELSE coll_raised(c1, exc)

(* --------------------------------- films ------------------------------- *)

\* the scores of a rating histogram (Film.ratings: int(k*2) for k in
\* RATINGS_RANGE)
Scores == 1..RATING_MAX

\* the scores whose counts are varied; the others have no ratings
VariedScores == {1, 5, 9, 10}

\* the histograms Film.ratings can scrape
Histograms ==
    {h \in [Scores -> 0..MaxCount] :
        \A n \in Scores \ VariedScores : h[n] = 0}

RECURSIVE sum_to(_, _)
\* sum() of the values of the keys 1..n
sum_to(f, n) == IF n = 0 THEN 0 ELSE f[n] + sum_to(f, n - 1)

\* Film.ratings_number_of
ratings_number_of(h) == sum_to(h, RATING_MAX)

\* Film._ratings_total_score
_ratings_total_score(h) ==
    IF ratings_number_of(h) = 0 THEN 0
    ELSE sum_to([n \in Scores |-> n * h[n]], RATING_MAX)

\* a value a property or method of Film yields: None, a bool, a float
\* (kept exactly, as the fraction num / den), the fallback of the bayesian
\* average or the value beta.ppf gives for up and down (kept in ninths:
\* up9 = 9 * up, down9 = 9 * down), or an exception
NoValue ==
    [kind |-> "None", bool |-> FALSE, num |-> 0, den |-> 1,
     up9 |-> 0, down9 |-> 0, fallback |-> "None", exc |-> "none"]

\* rating_true yielding 0 without ratings
rating_true_zero(h) ==
    [NoValue EXCEPT !.kind = "float",
                    !.num = _ratings_total_score(h),
                    !.den = IF ratings_number_of(h) = 0 THEN 1
                            ELSE 2 * ratings_number_of(h)]

\* Film.rating_true: (self._ratings_total_score / rat_num) * 0.5
rating_true(h) ==
    IF ratings_number_of(h) = 0 THEN NoValue
    ELSE [NoValue EXCEPT !.kind = "float",
                         !.num = _ratings_total_score(h),
                         !.den = 2 * ratings_number_of(h)]

\* max_key taking the first key among equal values
max_key_first(d) ==
    CHOOSE k \in DOMAIN d :
        \A j \in DOMAIN d : d[j] < d[k] \/ (d[j] = d[k] /\ k <= j)

\* max(zip(d.values(), d.keys()))[1]: the pairs (value, key) are compared,
\* so among equal values the greatest key is taken
max_key(d) ==
    CHOOSE k \in DOMAIN d :
        \A j \in DOMAIN d : d[j] < d[k] \/ (d[j] = d[k] /\ j <= k)

\* d.pop(m)
pop(d, m) == [k \in DOMAIN d \ {m} |-> d[k]]

RECURSIVE key_max(_, _)
\* util.key_max(d, max_num) with multiple_maxes False: the key found in
\* the max_num-th pass, the keys of the earlier passes being popped
key_max(d, max_num) ==
    IF max_num = 1 THEN max_key(d)
    ELSE key_max(pop(d, max_key(d)), max_num - 1)

\* sorted([a, b])
sorted(a, b) == IF a <= b THEN <<a, b>> ELSE <<b, a>>

\* Film.rating_ironic
rating_ironic(h) ==
    /\ sorted(key_max(h, 1), key_max(h, 2)) = <<1, RATING_MAX>>
    /\ h[1] >= minimum_number_of_ratings
    /\ h[RATING_MAX] >= minimum_number_of_ratings

\* 9 * up: sum of d[n] * (n - 1)
up9(d) == sum_to([n \in Scores |-> d[n] * (n - 1)], RATING_MAX)

\* down9 counting 9 - n
down9_short(d) == sum_to([n \in Scores |-> d[n] * (9 - n)], RATING_MAX)

\* 9 * down: sum of d[n] * (9 - (n - 1))
down9(d) == sum_to([n \in Scores |-> d[n] * (9 - (n - 1))], RATING_MAX)

\* the fallbacks _get_bayesian_average is called with: RATING_MIDDLE by
\* rating_bayesian, None by rating_friends_bayesian
Fallbacks == {"RATING_MIDDLE", "None"}

\* Film._get_bayesian_average(d, no_rating_fallback): the fallback, or
\* beta.ppf(0.05, up + a0, down + a0) * 4.5 + 0.5
_get_bayesian_average(d, no_rating_fallback) ==
    IF \A n \in DOMAIN d : d[n] = 0
    THEN [NoValue EXCEPT !.kind = "fallback",
                         !.fallback = no_rating_fallback]
    ELSE [NoValue EXCEPT !.kind = "beta",
                         !.up9 = up9(d),
                         !.down9 = down9(d)]

\* the arguments action_rate is called with: integers around the scale,
\* and a value that is not an int
RatingArgs ==
    [int : {TRUE}, val : (0 - MaxOver)..(RATING_MAX + MaxOver)]
        \cup {[int |-> FALSE, val |-> 0]}

\* the test of action_rate.  '&' binds tighter than 'in':
\* (isinstance(rating, int) & rating) in range(0, 11).  True & rating is
\* the lowest bit of rating; False & a value that is not an int raises
\* TypeError.
action_rate_check(rating) ==
    IF ~rating.int THEN "TypeError"
    ELSE IF (rating.val % 2) \in 0..RATING_MAX THEN "none"
    ELSE "ValueError"

\* the site's answer to a POST it accepts
Accepted ==
    [status |-> 200, kind |-> "json", result |-> "true", jerror |-> "absent",
     messages |-> FALSE, marker |-> "none", loggedin |-> FALSE, setcsrf |-> 0]

\* a Film object: the histogram of its page, and the last property or
\* method evaluated with its argument, the requests it issued and its value
NoFilm ==
    [ratings |-> [n \in Scores |-> 0], call |-> "none",
     rating |-> [int |-> TRUE, val |-> 0], fallback |-> "None",
     requests |-> 0, value |-> NoValue]

\* the value v of the call f, which issued no request
film_value(f, name, v) ==
    [f EXCEPT !.call = name, !.rating = NoFilm.rating,
              !.fallback = NoFilm.fallback, !.requests = 0, !.value = v]

\* a bool as a value
bool_value(b) == [NoValue EXCEPT !.kind = "bool", !.bool = b]

\* an exception as a value
raise_value(e) == [NoValue EXCEPT !.kind = "raise", !.exc = e]

(* ------------------------------ load() record -------------------------- *)

NoLoad ==
    [outcome |-> "none", exc |-> "none", prompted |-> FALSE,
     baseline |-> FALSE, loginpost |-> FALSE]

Running == [NoLoad EXCEPT !.outcome = "running"]

Raised(l, e) == [l EXCEPT !.outcome = "raised", !.exc = e]

(* -------------------------------- Init --------------------------------- *)

Init ==
    /\ session = NoSession
    /\ file = AbsentFile
    /\ now = 0
    /\ pc = "idle"
    /\ last = [resp |-> NoResponse, exc |-> "none"]
    /\ reqs = 0
    /\ loadres = NoLoad
    /\ sent = NothingSent
    /\ objects = "none"
    /\ coll = NoColl
    /\ film = NoFilm

(* ------------------------------- actions ------------------------------- *)

\* request() called by a component on the session it holds
Request ==
    /\ pc = "idle"
    /\ session.live
    /\ \E resp \in LifeCycleAnswers :
          /\ session' = request_session(session, resp)
          /\ file' = request_file(session, file, resp, now)
          /\ last' = request_last(resp)
    /\ sent' = request_sent(session, "GET", "page", NoData)
    /\ reqs' = 1 - reqs
    /\ UNCHANGED <<now, pc, loadres, objects, coll, film>>

\* the filmFilter setter: sets the cookie, no request and no save
filmFilter_set ==
    /\ pc = "idle"
    /\ session.live
    /\ \E v \in 0..1 :
          /\ v # session.filmFilter
          /\ session' = [session EXCEPT !.filmFilter = v]
    /\ UNCHANGED <<file, now, pc, last, reqs, loadres, sent, objects, coll,
                   film>>

\* delete_cache_file()
delete_cache_file ==
    /\ pc = "idle"
    /\ file.kind # "absent"
    /\ file' = AbsentFile
    /\ UNCHANGED <<session, now, pc, last, reqs, loadres, sent, objects,
                   coll, film>>

\* a component's constructor calls load(); load(), up to the first
\* request: open the cache file and unpickle it
load_open ==
    /\ pc = "idle"
    /\ CASE file.kind = "absent" ->
              /\ session' = NewSession
              /\ pc' = "init_creds"
              /\ loadres' = Running
         [] file.kind = "corrupt" ->
              /\ session' = NoSession
              /\ pc' = "idle"
              /\ loadres' = Raised(Running, "UnpicklingError")
         [] OTHER ->
              /\ session' = setstate(file.state)
              /\ pc' = "load_check"
              /\ loadres' = Running
    /\ UNCHANGED <<file, now, last, reqs, sent, objects, coll, film>>

\* load(): logged_in_check() on the unpickled session, then the age of the
\* cache file; returns the unpickled session or goes on to cls()
load_check ==
    /\ pc = "load_check"
    /\ \E resp \in LifeCycleAnswers :
         LET value == logged_in_check(session, resp)
             s1 == request_session(session, resp)
             f1 == IF session.creds = 0 THEN file
                   ELSE request_file(session, file, resp, now)
         IN /\ file' = f1
            /\ last' = IF session.creds = 0 THEN last ELSE request_last(resp)
            /\ reqs' = IF session.creds = 0 THEN reqs ELSE 1 - reqs
            /\ sent' = IF session.creds = 0 THEN sent
                       ELSE request_sent(session, "GET", "profile", NoData)
            /\ CASE value = "raise" ->
                      /\ session' = NoSession
                      /\ pc' = "idle"
                      /\ loadres' = Raised(loadres, request_exc(resp))
                      /\ objects' = objects
                 [] value = "false" \/ ~file_updated_after(f1, now - OneHour) ->
                      /\ session' = NewSession
                      /\ pc' = "init_creds"
                      /\ loadres' = loadres
                      /\ objects' = objects
                 [] OTHER ->
                      /\ session' = s1
                      /\ pc' = "idle"
                      /\ loadres' = [loadres EXCEPT !.outcome = "restored"]
                      /\ objects' = one_more(objects)
    /\ UNCHANGED <<now, coll, film>>

\* __init__, step 3: get_credentials(); its logged_in_check() finds no
\* username and issues no request; the operator types the credentials
init_creds ==
    /\ pc = "init_creds"
    /\ logged_in_check(session, NoResponse) = "false"
    /\ \E c \in 1..MaxCred : session' = [session EXCEPT !.creds = c]
    /\ pc' = "init_get"
    /\ loadres' = [loadres EXCEPT !.prompted = TRUE]
    /\ UNCHANGED <<file, now, last, reqs, sent, objects, coll, film>>

\* __init__, step 4: self.get('')
init_get ==
    /\ pc = "init_get"
    /\ \E resp \in LifeCycleAnswers :
          /\ file' = request_file(session, file, resp, now)
          /\ last' = request_last(resp)
          /\ IF request_exc(resp) = "none"
             THEN /\ session' = request_session(session, resp)
                  /\ pc' = "init_login"
                  /\ loadres' = [loadres EXCEPT !.baseline = TRUE]
             ELSE /\ session' = NoSession
                  /\ pc' = "idle"
                  /\ loadres' = Raised([loadres EXCEPT !.baseline = TRUE],
                                       request_exc(resp))
    /\ sent' = request_sent(session, "GET", "root", NoData)
    /\ reqs' = 1 - reqs
    /\ UNCHANGED <<now, objects, coll, film>>

\* __init__, step 5: login()
login ==
    /\ pc = "init_login"
    /\ \E resp \in LifeCycleAnswers :
          /\ file' = request_file(session, file, resp, now)
          /\ last' = request_last(resp)
          /\ IF request_exc(resp) = "none"
             THEN /\ session' = request_session(session, resp)
                  /\ loadres' = [loadres EXCEPT !.loginpost = TRUE,
                                                !.outcome = "fresh"]
                  /\ objects' = one_more(objects)
             ELSE /\ session' = NoSession
                  /\ loadres' = Raised([loadres EXCEPT !.loginpost = TRUE],
                                       request_exc(resp))
                  /\ objects' = objects
    /\ sent' = request_sent(session, "POST", "login", LoginData(session.creds))
    /\ pc' = "idle"
    /\ reqs' = 1 - reqs
    /\ UNCHANGED <<now, coll, film>>

\* the clock advances
Tick ==
    /\ now < MaxTime
    /\ now' = now + 1
    /\ UNCHANGED <<session, file, pc, last, reqs, loadres, sent, objects,
                   coll, film>>

\* the process ends; the next one starts without a session object
ProcessExit ==
    /\ session.live
    /\ session' = NoSession
    /\ pc' = "idle"
    /\ objects' = "none"
    /\ UNCHANGED <<file, now, last, reqs, loadres, sent, coll, film>>

\* the process is stopped inside save(), after open(..., 'wb') has
\* truncated the cache file and before pickle.dump has written it
save_interrupted ==
    /\ pc = "idle"
    /\ session.live
    /\ file' = CorruptFile(now)
    /\ session' = NoSession
    /\ objects' = "none"
    /\ UNCHANGED <<now, pc, last, reqs, loadres, sent, coll, film>>

Next ==
    \/ Request
    \/ filmFilter_set
    \/ delete_cache_file
    \/ load_open
    \/ load_check
    \/ init_creds
    \/ init_get
    \/ login
    \/ Tick
    \/ ProcessExit
    \/ save_interrupted

Spec == Init /\ [][Next]_vars

(* ---------------- classification of every answer ----------------------- *)

\* a session that load() has returned, with its snapshot in the cache file
InitClassify ==
    /\ \E c \in 1..MaxCred, k \in 0..MaxToken :
          /\ session = [live |-> TRUE, creds |-> c, csrf |-> k, filmFilter |-> 0]
          /\ file = save(session, 0)
    /\ now = 0
    /\ pc = "idle"
    /\ last = [resp |-> NoResponse, exc |-> "none"]
    /\ reqs = 0
    /\ loadres = [NoLoad EXCEPT !.outcome = "fresh", !.prompted = TRUE,
                                !.baseline = TRUE, !.loginpost = TRUE]
    /\ sent = NothingSent
    /\ objects = "one"
    /\ coll = NoColl
    /\ film = NoFilm

\* request() with any answer of the site: a GET without data or a POST
\* with form data
RequestAny ==
    /\ pc = "idle"
    /\ session.live
    /\ \E resp \in Answers :
          /\ session' = request_session(session, resp)
          /\ file' = request_file(session, file, resp, now)
          /\ last' = request_last(resp)
    /\ \E call \in {<<"GET", NoData>>, <<"POST", FormData>>} :
          sent' = request_sent(session, call[1], "page", call[2])
    /\ reqs' = 1 - reqs
    /\ UNCHANGED <<now, pc, loadres, objects, coll, film>>

\* request() to a site that never answers: a timeout would end the wait
\* with a transport error; without one the caller stays blocked in
\* super().request()
request_unanswered ==
    /\ pc = "idle"
    /\ session.live
    /\ IF request_timeout = "None"
       THEN /\ pc' = "blocked"
            /\ UNCHANGED <<last, reqs>>
       ELSE /\ pc' = pc
            /\ last' = request_last(NoResponse)
            /\ reqs' = 1 - reqs
    /\ sent' = request_sent(session, "GET", "page", NoData)
    /\ UNCHANGED <<session, file, now, loadres, objects, coll, film>>

NextClassify ==
    \/ RequestAny
    \/ request_unanswered

SpecClassify == InitClassify /\ [][NextClassify]_vars

(* ---------------------- collecting paginated listings ------------------ *)

\* Find.__call__ / _get_results up to the request for the second page:
\* the first fetch, the stop page, the first pass through the loop
Find_call ==
    /\ pc = "idle"
    /\ session.live
    /\ coll.at # "loop"
    /\ \E limit \in Limits, src \in Sources :
       \E resp \in {PageAnswer("find", src), NoResponse} :
          LET r == _get_soup(request_exc(resp))
              c == [NoColl EXCEPT !.comp = "find", !.limit = limit,
                                  !.source = src, !.fetched = <<1>>]
          IN /\ session' = request_session(session, resp)
             /\ file' = request_file(session, file, resp, now)
             /\ last' = request_last(resp)
             /\ coll' =
                  CASE r = "None" -> [c EXCEPT !.at = "done"]
                    [] r = "response" ->
                         loop_body([c EXCEPT
                            !.page_stop = page_stop(limit, get_last_page(src)),
                            !.page_current = 1])
                    [] OTHER -> coll_raised(c, r)
    /\ sent' = request_sent(session, "GET", "search", NoData)
    /\ reqs' = 1 - reqs
    /\ UNCHANGED <<now, pc, loadres, objects, film>>

\* Find._get_results: the request for the next page and the pass through
\* the loop for it (followed up to the page after the last possible one)
Find_next_page ==
    /\ coll.comp = "find"
    /\ coll.at = "loop"
    /\ coll.page_current <= MaxPages
    /\ \E resp \in {PageAnswer("find", coll.source), NotFoundPage, NoResponse} :
          LET c == [coll EXCEPT !.page_current = @ + 1,
                                !.fetched = Append(@, coll.page_current + 1)]
          IN /\ session' = request_session(session, resp)
             /\ file' = request_file(session, file, resp, now)
             /\ last' = request_last(resp)
             /\ coll' = IF request_exc(resp) = "none" THEN loop_body(c)
                        ELSE coll_raised(c, request_exc(resp))
    /\ sent' = request_sent(session, "GET", "search", NoData)
    /\ reqs' = 1 - reqs
    /\ UNCHANGED <<now, pc, loadres, objects, film>>

\* Tags.get_tags up to the second get_soup: the first page, the
\* 'No ... tags yet' header, the last page
Tags_get_tags ==
    /\ pc = "idle"
    /\ session.live
    /\ coll.at # "loop"
    /\ \E src \in Sources :
       \E resp \in {PageAnswer("tags", src), NoResponse} :
          LET c == [NoColl EXCEPT !.comp = "tags", !.source = src,
                                  !.fetched = <<1>>]
          IN /\ session' = request_session(session, resp)
             /\ file' = request_file(session, file, resp, now)
             /\ last' = request_last(resp)
             /\ coll' =
                  IF request_exc(resp) # "none"
                  THEN coll_raised(c, request_exc(resp))
                  ELSE IF src.empty THEN [c EXCEPT !.at = "done"]
                  ELSE tags_body([c EXCEPT
                          !.page_stop = get_last_page(src),
                          !.page_current = 1])
    /\ sent' = request_sent(session, "GET", "tags", NoData)
    /\ reqs' = 1 - reqs
    /\ UNCHANGED <<now, pc, loadres, objects, film>>

\* Tags.get_tags: get_soup(i) for the next i of range(2, last_page)
Tags_get_soup ==
    /\ coll.comp = "tags"
    /\ coll.at = "loop"
    /\ \E resp \in {PageAnswer("tags", coll.source), NoResponse} :
          LET c == [coll EXCEPT !.page_current = @ + 1,
                                !.fetched = Append(@, coll.page_current + 1)]
          IN /\ session' = request_session(session, resp)
             /\ file' = request_file(session, file, resp, now)
             /\ last' = request_last(resp)
             /\ coll' = IF request_exc(resp) = "none" THEN tags_body(c)
                        ELSE coll_raised(c, request_exc(resp))
    /\ sent' = request_sent(session, "GET", "tags", NoData)
    /\ reqs' = 1 - reqs
    /\ UNCHANGED <<now, pc, loadres, objects, film>>

NextCollect ==
    \/ Find_call
    \/ Find_next_page
    \/ Tags_get_tags
    \/ Tags_get_soup

\* the component works on the session that load() has returned
InitCollect ==
    /\ session = [live |-> TRUE, creds |-> 1, csrf |-> 1, filmFilter |-> 0]
    /\ file = save(session, 0)
    /\ now = 0
    /\ pc = "idle"
    /\ last = [resp |-> NoResponse, exc |-> "none"]
    /\ reqs = 0
    /\ loadres = [NoLoad EXCEPT !.outcome = "fresh", !.prompted = TRUE,
                                !.baseline = TRUE, !.loginpost = TRUE]
    /\ sent = NothingSent
    /\ objects = "one"
    /\ coll = NoColl
    /\ film = NoFilm

SpecCollect == InitCollect /\ [][NextCollect]_vars

(* --------------------- walking a listing by 'next' --------------------- *)

\* UserInfo._get_people: page_num = 1 and the first pass of the loop
_get_people ==
    /\ pc = "idle"
    /\ session.live
    /\ coll.at # "loop"
    /\ \E src \in WalkSources :
       \E resp \in {PageAnswer("people", src), NotFoundPage, NoResponse} :
          /\ session' = request_session(session, resp)
          /\ file' = request_file(session, file, resp, now)
          /\ last' = request_last(resp)
          /\ coll' = walk_step([NoColl EXCEPT !.comp = "people",
                                              !.source = src],
                               request_exc(resp))
    /\ sent' = request_sent(session, "GET", "people", NoData)
    /\ reqs' = 1 - reqs
    /\ UNCHANGED <<now, pc, loadres, objects, film>>

\* UserInfo._get_people: page_num += 1 and the next pass of the loop
\* (followed up to the page after the last possible one)
_get_people_next ==
    /\ coll.comp = "people"
    /\ coll.at = "loop"
    /\ coll.page_current <= MaxPages
    /\ \E resp \in {PageAnswer("people", coll.source), NotFoundPage,
                    NoResponse} :
          /\ session' = request_session(session, resp)
          /\ file' = request_file(session, file, resp, now)
          /\ last' = request_last(resp)
          /\ coll' = walk_step(coll, request_exc(resp))
    /\ sent' = request_sent(session, "GET", "people", NoData)
    /\ reqs' = 1 - reqs
    /\ UNCHANGED <<now, pc, loadres, objects, film>>

\* Tags._get_viewing_links.get_links: page_num = 1 and the first pass
get_links ==
    /\ pc = "idle"
    /\ session.live
    /\ coll.at # "loop"
    /\ \E src \in WalkSources :
       \E resp \in {PageAnswer("links", src), NotFoundPage, NoResponse} :
          /\ session' = request_session(session, resp)
          /\ file' = request_file(session, file, resp, now)
          /\ last' = request_last(resp)
          /\ coll' = walk_step([NoColl EXCEPT !.comp = "links",
                                              !.source = src],
                               request_exc(resp))
    /\ sent' = request_sent(session, "GET", "tag", NoData)
    /\ reqs' = 1 - reqs
    /\ UNCHANGED <<now, pc, loadres, objects, film>>

\* get_links: page_num += 1 and the next pass of the loop
get_links_next ==
    /\ coll.comp = "links"
    /\ coll.at = "loop"
    /\ coll.page_current <= MaxPages
    /\ \E resp \in {PageAnswer("links", coll.source), NotFoundPage,
                    NoResponse} :
          /\ session' = request_session(session, resp)
          /\ file' = request_file(session, file, resp, now)
          /\ last' = request_last(resp)
          /\ coll' = walk_step(coll, request_exc(resp))
    /\ sent' = request_sent(session, "GET", "tag", NoData)
    /\ reqs' = 1 - reqs
    /\ UNCHANGED <<now, pc, loadres, objects, film>>

NextWalk ==
    \/ _get_people
    \/ _get_people_next
    \/ get_links
    \/ get_links_next

\* a loop that has been entered goes on running: the next pass is taken
\* as long as it can be
SpecWalk ==
    /\ InitCollect
    /\ [][NextWalk]_vars
    /\ WF_vars(_get_people_next)
    /\ WF_vars(get_links_next)

(* ---------------------------- a film's ratings ------------------------- *)

\* a Film of any histogram, on the session that load() has returned
InitFilm ==
    /\ session = [live |-> TRUE, creds |-> 1, csrf |-> 1, filmFilter |-> 0]
    /\ file = save(session, 0)
    /\ now = 0
    /\ pc = "idle"
    /\ last = [resp |-> NoResponse, exc |-> "none"]
    /\ reqs = 0
    /\ loadres = [NoLoad EXCEPT !.outcome = "fresh", !.prompted = TRUE,
                                !.baseline = TRUE, !.loginpost = TRUE]
    /\ sent = NothingSent
    /\ objects = "one"
    /\ coll = NoColl
    /\ \E h \in Histograms : film = [NoFilm EXCEPT !.ratings = h]

Film_rating_ironic ==
    /\ film' = film_value(film, "rating_ironic",
                          bool_value(rating_ironic(film.ratings)))
    /\ UNCHANGED <<session, file, now, pc, last, reqs, loadres, sent,
                   objects, coll>>

Film_rating_true ==
    /\ film' = film_value(film, "rating_true", rating_true(film.ratings))
    /\ UNCHANGED <<session, file, now, pc, last, reqs, loadres, sent,
                   objects, coll>>

\* rating_bayesian / rating_friends_bayesian
Film_rating_bayesian ==
    /\ \E fallback \in Fallbacks :
          film' = [film_value(film, "rating_bayesian",
                              _get_bayesian_average(film.ratings, fallback))
                   EXCEPT !.fallback = fallback]
    /\ UNCHANGED <<session, file, now, pc, last, reqs, loadres, sent,
                   objects, coll>>

\* action_rate(rating): the test, then _action('rate', data=...), a POST
\* through request()
Film_action_rate ==
    /\ \E rating \in RatingArgs :
          IF action_rate_check(rating) # "none"
          THEN /\ film' = [film EXCEPT
                     !.call = "action_rate", !.rating = rating,
                     !.fallback = NoFilm.fallback, !.requests = 0,
                     !.value = raise_value(action_rate_check(rating))]
               /\ UNCHANGED <<session, file, last, reqs, sent>>
          ELSE \E resp \in {Accepted, NoResponse} :
               /\ session' = request_session(session, resp)
               /\ file' = request_file(session, file, resp, now)
               /\ last' = request_last(resp)
               /\ sent' = request_sent(session, "POST", "rate", FormData)
               /\ reqs' = 1 - reqs
               /\ film' = [film EXCEPT
                     !.call = "action_rate", !.rating = rating,
                     !.fallback = NoFilm.fallback, !.requests = 1,
                     !.value = IF request_exc(resp) = "none" THEN NoValue
                               ELSE raise_value(request_exc(resp))]
    /\ UNCHANGED <<now, pc, loadres, objects, coll>>

NextFilm ==
    \/ Film_rating_ironic
    \/ Film_rating_true
    \/ Film_rating_bayesian
    \/ Film_action_rate

SpecFilm == InitFilm /\ [][NextFilm]_vars

(* ------------------------------- claims -------------------------------- *)

\* a site error code is present in the answer: the 'error' key of the
\* structured payload, or the code of the embedded marker
ErrorCodePresent(resp) ==
    \/ resp.jerror # "absent"
    \/ resp.marker \in {"not_found", "forbidden", "server_error"}

\* "ok" as section 4.1 states it (a null result counts as no result)
ClaimedOk(resp) ==
    /\ resp.status < 400
    /\ ~ErrorCodePresent(resp)
    /\ resp.result \in {"absent", "null"} \cup successful_result

\* the constructor got as far as the ok property, and it is True
ClassifiedOk(resp) ==
    /\ resp # NoResponse
    /\ _get_letterboxd_errors(resp) # "AttributeError"
    /\ ok(resp, get_letterboxd_response_dict(resp))

\* C1: request() returns a response only when it is ok in the sense of
\* section 4.1; for every other response it raises.
C1_ReturnsOnlyOk ==
    (last.resp # NoResponse /\ last.exc = "none")
        => ClaimedOk(last.resp)

\* C2: a response in which a site error code is present is never
\* classified as successful.
C2_ErrorCodeNeverOk ==
    ErrorCodePresent(last.resp) => ~ClassifiedOk(last.resp)

\* C3: HTTP 200 with {"result":"error","error":"forbidden"} makes
\* request() raise PageForbiddenError.
C3_Forbidden200RaisesForbidden ==
    (/\ last.resp # NoResponse
     /\ last.resp.status = 200 /\ last.resp.kind = "json"
     /\ last.resp.result = "error" /\ last.resp.jerror = "forbidden")
        => last.exc = "PageForbiddenError"

\* C4: the code of the embedded error marker decides the exception:
\* not_found gives PageNotFound, forbidden gives PageForbiddenError, any
\* other code gives LetterboxdError.
C4_MarkerDecidesKind ==
    last.resp.kind = "html" =>
        /\ last.resp.marker = "not_found" => last.exc = "PageNotFound"
        /\ last.resp.marker = "forbidden" => last.exc = "PageForbiddenError"
        /\ last.resp.marker = "server_error" => last.exc = "LetterboxdError"

\* C5: load() does not return the unpickled session when the cache file
\* was last written more than one hour before.
C5_StaleCacheIsDiscarded ==
    [][(pc = "load_check" /\ now - file.mtime > OneHour)
          => loadres'.outcome # "restored"]_vars

\* C6: load() never raises because the cache file cannot be unpickled.
C6_LoadNeverFailsOnCacheState ==
    ~(loadres.outcome = "raised" /\ loadres.exc = "UnpicklingError")

\* load() returns the unpickled session in this step, the cache file
\* being less than one hour old
RestoredStep ==
    /\ pc = "load_check"
    /\ now - file.mtime < OneHour
    /\ loadres'.outcome = "restored"

NoFreshLogin(l) == ~l.prompted /\ ~l.baseline /\ ~l.loginpost

\* C7 (as claimed): the session load() returns from a fresh cache file has
\* the cookie jar and token that were saved, and no prompt, baseline GET or
\* login POST was issued.
C7_RoundTripEqualJar ==
    [][RestoredStep =>
          /\ getstate(session') = file.state
          /\ NoFreshLogin(loadres')]_vars

\* C7 (amended): the session load() returns from a fresh cache file has
\* the saved credentials and the saved cookie jar except for the token
\* cookie when the answer to the logged-in check set a new one; the cache
\* file is rewritten with that jar; no prompt, baseline GET or login POST
\* was issued.
C7_RoundTripUpToRefresh ==
    [][RestoredStep =>
          /\ session'.live
          /\ session'.creds = file.state.creds
          /\ session'.filmFilter = file.state.filmFilter
          /\ session'.csrf = IF last'.resp.setcsrf # 0
                             THEN last'.resp.setcsrf ELSE file.state.csrf
          /\ file'.state = getstate(session')
          /\ NoFreshLogin(loadres')]_vars

C7_Witness ==
    /\ loadres.outcome = "restored"
    /\ NoFreshLogin(loadres)
    /\ pc = "idle"
    /\ session.live /\ session.csrf # 0
    /\ last.exc = "none" /\ last.resp.loggedin /\ last.resp.setcsrf = 0
    /\ file.state = getstate(session)

\* C8: when request() returns, the cache file holds the snapshot of the
\* session object as it is after the response (cookie jar and token), and
\* the object that goes on being used is equal to that snapshot.
C8_FileHoldsSnapshotAfterReturn ==
    [][(reqs' # reqs /\ last'.exc = "none") =>
          /\ file'.kind = "pickle"
          /\ file'.mtime = now
          /\ file'.state = getstate(request_session(session, last'.resp))
          /\ pc' # "init_creds" =>
                (session'.live /\ file'.state = getstate(session'))]_vars

C8_Witness ==
    /\ last.exc = "none"
    /\ last.resp.setcsrf # 0
    /\ session.live /\ session.csrf = last.resp.setcsrf
    /\ file.kind = "pickle" /\ file.state = getstate(session)
    /\ file.mtime = now /\ now > 0

\* C9: whenever a response is obtained, the session as it is after the
\* response is persisted, also when request() raises.
C9_PersistedAlsoWhenRaising ==
    [][(reqs' # reqs /\ last'.resp # NoResponse) =>
          file' = save(request_session(session, last'.resp), now)]_vars

\* C10: a request that obtains no response leaves the cache file as it was.
C10_TransportFailureNoPersist ==
    [][(reqs' # reqs /\ last'.resp = NoResponse) => file' = file]_vars

C10_Witness ==
    /\ last.resp = NoResponse /\ last.exc = "ConnectionError"
    /\ session.live
    /\ file.kind = "pickle" /\ file.state # getstate(session)
    /\ file.mtime < now

\* C11: the cache file is never empty or partially written, also when the
\* process stops part-way through save().
C11_CacheFileNeverPartial ==
    file.kind # "corrupt"

\* C12: at most one session object is held by the components of the
\* process, after any sequence of constructions.
C12_AtMostOneSessionObject ==
    objects # "many"

\* C13: in the construction of a fresh session no request precedes the
\* baseline GET; the baseline GET is one GET of the site root carrying no
\* token and no credentials; the login POST is sent only after it has
\* returned, and its data carries the credentials and the token that the
\* answer to the baseline GET put in the cookie jar.
C13_BaselineGetThenLoginWithToken ==
    [][/\ pc = "init_creds" => reqs' = reqs
       /\ (pc' = "init_get" /\ pc # "init_get") =>
             (pc = "init_creds" /\ ~loadres'.baseline)
       /\ (pc = "init_get" /\ reqs' # reqs) =>
             /\ ~loadres.baseline /\ loadres'.baseline
             /\ sent'.method = "GET" /\ sent'.url = "root"
             /\ sent'.wire = NoData
             /\ pc' # "init_get"
       /\ (pc' = "init_login" /\ pc # "init_login") =>
             (pc = "init_get" /\ reqs' # reqs /\ last'.exc = "none")
       /\ (pc = "init_login" /\ reqs' # reqs) =>
             /\ loadres.baseline /\ ~loadres.loginpost
             /\ sent'.method = "POST" /\ sent'.url = "login"
             /\ sent'.wire.username = Credentials(session.creds).username
             /\ sent'.wire.password = Credentials(session.creds).password
             /\ sent'.wire.csrf = IF last.resp.setcsrf = 0 THEN -1
                                  ELSE last.resp.setcsrf
             /\ pc' # "init_login"]_vars

C13_Witness ==
    /\ loadres.outcome = "fresh"
    /\ loadres.prompted /\ loadres.baseline /\ loadres.loginpost
    /\ sent.method = "POST" /\ sent.url = "login"
    /\ sent.wire.csrf > 0 /\ sent.wire.password # 0
    /\ session.live

\* the site's answer to a login it rejects: a JSON object whose result is
\* "error"
Rejected(resp) == resp.kind = "json" /\ resp.result = "error"

\* C14: when the site rejects the credentials, login() raises
\* LetterboxdError, load() returns no session object, and the login attempt
\* writes nothing to the cache file.
C14_RejectedLoginRaises ==
    [][(pc = "init_login" /\ reqs' # reqs /\ Rejected(last'.resp)) =>
          /\ loadres'.outcome = "raised"
          /\ loadres'.exc = "LetterboxdError"
          /\ ~session'.live
          /\ objects' = objects
          /\ file' = file]_vars

C14_Witness ==
    /\ loadres.outcome = "raised" /\ loadres.exc = "LetterboxdError"
    /\ loadres.loginpost
    /\ sent.url = "login"
    /\ Rejected(last.resp) /\ last.exc = "LetterboxdError"
    /\ ~session.live
    /\ file.kind = "pickle" /\ file.state.csrf # 0

\* C15: the form fields request() sends are the caller's fields together
\* with '__csrf' = the cookie's value when the session holds the token
\* cookie, and the caller's fields alone, without '__csrf', when it does not.
C15_TokenMergedWhenKnown ==
    [][reqs' # reqs =>
          /\ sent'.caller.csrf = -1
          /\ sent'.wire = IF session.csrf # 0
                          THEN [sent'.caller EXCEPT !.csrf = session.csrf]
                          ELSE sent'.caller]_vars

C15_Witness ==
    /\ sent.method = "POST"
    /\ sent.caller = FormData
    /\ sent.wire.fields /\ sent.wire.csrf > 0

\* C16: no log record written by the session layer contains the password.
C16_PasswordNeverLogged ==
    sent.logged.password = 0

\* C17: the snapshot save() writes to the cache file does not contain the
\* password.
C17_SnapshotWithoutPassword ==
    file.kind = "pickle" => Credentials(file.state.creds).password = 0

\* the pages 1..n in ascending order
PagesUpTo(n) == [i \in 1..n |-> i]

\* the first n records of a listing, in page order and within-page order
RecordsUpTo(n) == [i \in 1..n |-> i]

\* the stop page as section 4.3 states it
ClaimedPageStop(limit, last_page) ==
    IF limit.set
    THEN Min(last_page, (limit.val + RESULTS_PER_PAGE - 1) \div RESULTS_PER_PAGE)
    ELSE last_page

\* a search of a listing that has results, no request of which failed
FindOfResults ==
    /\ coll.comp = "find"
    /\ ~coll.source.empty
    /\ coll.at \in {"loop", "done"}

\* C18: with limit >= 1 or unset, Find._get_results fetches the pages
\* 1..pageStop in ascending order, each once and none beyond pageStop,
\* where pageStop = min(L, ceil(limit/20)), or L when limit is unset; it
\* returns the first min(limit, 20 * pageStop) records of the listing in
\* order, all 20 * L records when limit is unset.
C18_FetchesToPageStopAndTruncates ==
    (FindOfResults /\ (~coll.limit.set \/ coll.limit.val >= 1)) =>
        LET stop == ClaimedPageStop(coll.limit, coll.source.pages)
            all == RESULTS_PER_PAGE * stop
        IN /\ Len(coll.fetched) <= stop
           /\ coll.fetched = PagesUpTo(Len(coll.fetched))
           /\ coll.at = "done" =>
                 /\ coll.fetched = PagesUpTo(stop)
                 /\ coll.returned =
                      RecordsUpTo(IF coll.limit.set
                                  THEN Min(coll.limit.val, all) ELSE all)

C18_Witness ==
    /\ FindOfResults /\ coll.at = "done"
    /\ coll.limit.set /\ coll.limit.val = RESULTS_PER_PAGE + 5
    /\ coll.source.pages = MaxPages
    /\ coll.fetched = <<1, 2>>
    /\ Len(coll.results) = 2 * RESULTS_PER_PAGE
    /\ Len(coll.returned) = RESULTS_PER_PAGE + 5

\* C19: with limit = 0 a search issues exactly one fetch and returns an
\* empty sequence, whatever the number of pages of the listing.
C19_LimitZeroOneFetchEmpty ==
    (FindOfResults /\ coll.limit.set /\ coll.limit.val = 0) =>
        /\ coll.at = "done"
        /\ coll.fetched = <<1>>
        /\ coll.returned = <<>>

\* C20: when the first page reports that there are no results, the
\* collection issues exactly one fetch and returns an empty result, for
\* every limit.
C20_NoResultsOneFetchEmpty ==
    (/\ coll.comp \in {"find", "tags"}
     /\ coll.source.empty
     /\ last.resp = PageAnswer(coll.comp, coll.source)) =>
        /\ coll.at = "done"
        /\ coll.fetched = <<1>>
        /\ coll.returned = <<>>

\* C21: an exception of request() in a collection, other than PageNotFound
\* on the first page of a search, ends the collection with that exception,
\* and no record list is returned.
C21_ErrorsPropagate ==
    [][(/\ reqs' # reqs
        /\ last'.exc # "none"
        /\ ~(/\ coll'.comp = "find" /\ Len(coll'.fetched) = 1
             /\ last'.exc = "PageNotFound")) =>
          /\ coll'.at = "raised"
          /\ coll'.exc = last'.exc
          /\ coll'.returned = <<>>]_vars

C21_Witness ==
    /\ coll.comp = "find" /\ coll.at = "raised"
    /\ Len(coll.fetched) >= 2
    /\ last.resp = NotFoundPage /\ coll.exc = last.exc
    /\ Len(coll.results) >= RESULTS_PER_PAGE
    /\ coll.returned = <<>>

\* C28: for a tag listing of L pages, Tags.get_tags fetches the pages 1..L
\* once each in ascending order and returns the tags of all L pages.
C28_TagsOfAllPages ==
    (coll.comp = "tags" /\ ~coll.source.empty /\ coll.at = "done") =>
        /\ coll.fetched = PagesUpTo(coll.source.pages)
        /\ coll.returned = RecordsUpTo(RESULTS_PER_PAGE * coll.source.pages)

\* C29: for every limit, a search of a listing of L pages issues at most L
\* page fetches.
C29_AtMostLastPageFetches ==
    coll.comp = "find" => Len(coll.fetched) <= get_last_page(coll.source)

\* a walk is under way or has ended
Walk == coll.comp \in {"people", "links"}

\* the pages fetched are 1, 2, ... in order, none after a page without
\* 'next'; the walk goes on only after a page with 'next'; what it returns
\* are the records of all pages up to the first one without 'next'
WalkSafe ==
    Walk =>
        /\ coll.fetched = PagesUpTo(Len(coll.fetched))
        /\ ~coll.source.endless => Len(coll.fetched) <= coll.source.pages
        /\ coll.at = "loop" =>
              has_next(coll.source, coll.page_current)
        /\ coll.at = "done" =>
              /\ ~coll.source.endless
              /\ coll.fetched = PagesUpTo(coll.source.pages)
              /\ coll.returned =
                    RecordsUpTo(RESULTS_PER_PAGE * coll.source.pages)

MiddleScores == Scores \ {1, RATING_MAX}

\* the two most frequent scores are 1 and 10 when, among equal counts, the
\* score that comes first in key order counts as the more frequent: no
\* other score has more ratings than 1, or as many as 10
ClaimedIronic(h) ==
    /\ \A n \in MiddleScores : h[n] <= h[1] /\ h[n] < h[RATING_MAX]
    /\ h[1] >= minimum_number_of_ratings
    /\ h[RATING_MAX] >= minimum_number_of_ratings

\* the same when, among equal counts, the greater score counts as the
\* more frequent: no other score has as many ratings as 1, or more than 10
GreaterScoreIronic(h) ==
    /\ \A n \in MiddleScores : h[n] < h[1] /\ h[n] <= h[RATING_MAX]
    /\ h[1] >= minimum_number_of_ratings
    /\ h[RATING_MAX] >= minimum_number_of_ratings

\* C23 (as claimed): rating_ironic is true exactly when the two most
\* frequent scores are 1 and 10, both with at least 3 ratings, the first
\* score in key order being taken among equal counts.
C23_IronicFirstInKeyOrder ==
    film.call = "rating_ironic" =>
        (film.value.bool <=> ClaimedIronic(film.ratings))

\* C23 (amended): rating_ironic is true exactly when the two most frequent
\* scores are 1 and 10, both with at least 3 ratings, the greater score
\* being taken among equal counts.
C23_IronicGreaterScoreFirst ==
    film.call = "rating_ironic" =>
        /\ film.value.kind = "bool"
        /\ film.value.bool <=> GreaterScoreIronic(film.ratings)

C23_Witness ==
    /\ film.call = "rating_ironic"
    /\ film.value.bool
    /\ film.ratings[9] = film.ratings[RATING_MAX]
    /\ film.ratings[1] > film.ratings[9]

\* C24: rating_true is None when the histogram has no ratings; otherwise
\* it is the float r with 2 * total * r = sum of score * count, and
\* 0.5 <= r <= 5.0.
C24_TrueMean ==
    film.call = "rating_true" =>
        LET total == sum_to(film.ratings, RATING_MAX)
            score == sum_to([n \in Scores |-> n * film.ratings[n]], RATING_MAX)
            r == film.value
        IN IF total = 0 THEN r.kind = "None"
           ELSE /\ r.kind = "float"
                /\ r.den > 0
                /\ 2 * total * r.num = score * r.den
                /\ r.den <= 2 * r.num
                /\ r.num <= 5 * r.den

C24_Witness ==
    /\ film.call = "rating_true"
    /\ film.ratings[RATING_MAX] = 1
    /\ sum_to(film.ratings, RATING_MAX) = 1
    /\ film.value.kind = "float"
    /\ film.value.num = 5 * film.value.den

\* C25: action_rate with a rating that is not an integer in 0..10 raises
\* a local error and issues no request.
C25_InvalidRatingNoRequest ==
    (/\ film.call = "action_rate"
     /\ ~(film.rating.int /\ film.rating.val \in 0..RATING_MAX)) =>
        /\ film.requests = 0
        /\ film.value.kind = "raise"
        /\ film.value.exc \in {"ValueError", "TypeError"}

\* C30: in _get_bayesian_average up >= 0, down >= 0 and up + down is the
\* number of ratings (9 * up = sum of count * (score - 1), 9 * down = sum
\* of count * (10 - score)); without ratings the fallback supplied is
\* returned and nothing is computed.
C30_BayesianPartition ==
    film.call = "rating_bayesian" =>
        LET total == sum_to(film.ratings, RATING_MAX)
            score == sum_to([n \in Scores |-> n * film.ratings[n]], RATING_MAX)
            r == film.value
        IN IF total = 0
           THEN /\ r.kind = "fallback"
                /\ r.fallback = film.fallback
                /\ r.up9 = 0 /\ r.down9 = 0
           ELSE /\ r.kind = "beta"
                /\ r.up9 >= 0 /\ r.down9 >= 0
                /\ r.up9 + r.down9 = 9 * total
                /\ r.up9 = score - total
                /\ r.down9 = RATING_MAX * total - score

C30_Witness ==
    /\ film.call = "rating_bayesian"
    /\ film.value.kind = "beta"
    /\ film.value.up9 > 0 /\ film.value.down9 > 0
    /\ film.ratings[1] > 0 /\ film.ratings[RATING_MAX] > 0

\* load() has evaluated logged_in_check() on the unpickled session in
\* this step
CheckStep ==
    /\ pc = "load_check"
    /\ pc' = "init_creds" \/ loadres' # loadres

C27_EveryRequestEnds ==
    pc # "blocked"

====
